---- MODULE Spec2Model ----
(***************************************************************************)
(* Model of the PDF converter / archiver: the catalog of imported files    *)
(* (model.py, class Model), the handlers of the interactive thread and the *)
(* export worker thread (controller.py, class Controller), and the control *)
(* states of the view (view.py, class View).                               *)
(***************************************************************************)
EXTENDS Integers, Sequences, FiniteSets, TLC

\* ---------------------------------------------------------------- bounds
\* Largest number of files chosen in one import dialog.
MaxPick == 2

\* Largest number of names the user edits while one export worker runs.
MaxEditsInRun == 1

\* ---------------------------------------------------------------- inputs
\* Files the import dialog can return: directory, stem and suffix of each.
Files ==
    { [dir |-> "/a", stem |-> "r", suffix |-> ".docx"],
      [dir |-> "/b", stem |-> "r", suffix |-> ".docx"],
      [dir |-> "/c", stem |-> "r", suffix |-> ".docx"] }

\* Texts the user can leave in the in-place editor, one string per character.
Typed ==
    { <<>>, <<" ">>, <<"r">>, <<" ", "x">>, <<"2", "_", "r">> }

\* Outcomes of one run of the external converter: it exits zero and writes
\* <stem of its input>.pdf ("ok"), exits non-zero ("fail"), or cannot be
\* started ("oserror").
ConverterOutcomes == {"ok", "fail", "oserror"}

\* ------------------------------------------------------ pathlib, strings
\* A path is kept by its parts (directory, stem, suffix), as pathlib splits it;
\* str(path) is the string the program stores and compares.
PathStr(f) == f.dir \o "/" \o f.stem \o f.suffix

\* pathlib.Path.name: the base name of a source file.
BaseName(f) == f.stem \o f.suffix

RECURSIVE LStrip(_)
LStrip(cs) == IF cs # <<>> /\ Head(cs) = " " THEN LStrip(Tail(cs)) ELSE cs

RECURSIVE RStrip(_)
RStrip(cs) ==
    IF cs # <<>> /\ cs[Len(cs)] = " " THEN RStrip(SubSeq(cs, 1, Len(cs) - 1)) ELSE cs

RECURSIVE Join(_)
Join(cs) == IF cs = <<>> THEN "" ELSE Head(cs) \o Join(Tail(cs))

\* entry.get().strip()
Strip(cs) == Join(RStrip(LStrip(cs)))

VARIABLES
    file_path_dict,       \* Model.file_path_dict: id -> absolute path (by its parts)
    file_element_dict,    \* Model.file_element_dict: id -> <<id, stem, suffix>>
    unique_file_names,    \* Model.unique_file_names
    counter,              \* Model.counter
    admitted,             \* history: ids admitted by a conflict prompt that returned true
    successes,            \* history: adds that returned an entry since the last reset
    controls,             \* states of btn_import, btn_export, btn_reset (TRUE = tk.NORMAL)
    number_files_imported,\* View.number_files_imported (the count it shows)
    export_status,        \* View.export_status
    pending,              \* handle_import: files of the dialog not yet offered to add_file
    last,                 \* history: the call made by the last step
    threads,              \* number of export worker threads started and not ended
    wpc,                  \* position of the export worker thread
    wlocal,               \* live locals of Model.export in the worker thread
    tempdir,              \* the working directory: whether it exists, and its files
    run                   \* history of the current export run

catalog == <<file_path_dict, file_element_dict, unique_file_names, counter>>
viewvars == <<controls, number_files_imported, export_status>>
history == <<admitted, successes>>
vars == <<file_path_dict, file_element_dict, unique_file_names, counter, admitted,
          successes, controls, number_files_imported, export_status, pending, last,
          threads, wpc, wlocal, tempdir, run>>

\* ---------------------------------------------------------------- Model
\* The count taken from the name set, not from file_path_dict.
get_file_count_OfNames == Cardinality(unique_file_names)

\* Model.get_file_count
get_file_count == Cardinality(DOMAIN file_path_dict)

Stem(id) == file_element_dict[id][2]
Suffix(id) == file_element_dict[id][3]
FullName(id) == Stem(id) \o Suffix(id)

None == <<>>

NoCall == [op |-> "none", path |-> "", id |-> 0, stem |-> "", suffix |-> "",
           prompts |-> 0, answer |-> FALSE, ret |-> None]

\* The test of line 46 made on the keys of file_path_dict, not its values.
PathLoaded_OnKeys(absolute_path) ==
    PathStr(absolute_path) \in { ToString(id) : id \in DOMAIN file_path_dict }

\* add_file, line 46: the path is already loaded.
PathLoaded(absolute_path) ==
    \E id \in DOMAIN file_path_dict :
        PathStr(file_path_dict[id]) = PathStr(absolute_path)

\* add_file, line 52: the full name is in the uniqueness set.
NameTaken(file_full_name) == file_full_name \in unique_file_names

\* Model.add_file(absolute_path, file_stem, file_suffix, ask_confirm_func), where
\* ask is the answer the conflict prompt gives if it is invoked.
add_file(absolute_path, file_stem, file_suffix, ask) ==
    LET file_full_name == file_stem \o file_suffix
        call == [NoCall EXCEPT !.op = "add", !.path = PathStr(absolute_path),
                               !.stem = file_stem, !.suffix = file_suffix]
    IN
    IF PathLoaded(absolute_path)
    THEN /\ UNCHANGED <<catalog, history>>
         /\ last' = call
    ELSE IF NameTaken(file_full_name) /\ ~ask
    THEN /\ UNCHANGED <<catalog, history>>
         /\ last' = [call EXCEPT !.prompts = 1]
    ELSE LET current_id == counter
             file_element == <<current_id, file_stem, file_suffix>>
         IN
         /\ file_path_dict' =
                [id \in DOMAIN file_path_dict \cup {current_id} |->
                    IF id = current_id THEN absolute_path ELSE file_path_dict[id]]
         /\ file_element_dict' =
                [id \in DOMAIN file_element_dict \cup {current_id} |->
                    IF id = current_id THEN file_element ELSE file_element_dict[id]]
         /\ unique_file_names' = unique_file_names \cup {file_full_name}
         /\ counter' = counter + 1
         /\ admitted' = IF NameTaken(file_full_name)
                        THEN admitted \cup {current_id} ELSE admitted
         /\ successes' = successes + 1
         /\ last' = [call EXCEPT !.prompts = IF NameTaken(file_full_name) THEN 1 ELSE 0,
                                 !.answer = NameTaken(file_full_name),
                                 !.id = current_id, !.ret = file_element]

\* update_file_stem without the test of line 87.
RenameConflict_Unchecked(old_full_name, new_full_name) == FALSE

\* update_file_stem, line 87: the rename would create a duplicate.
RenameConflict(old_full_name, new_full_name) ==
    new_full_name # old_full_name /\ new_full_name \in unique_file_names

\* update_file_stem, lines 91-93: the uniqueness set after a rename.
NamesAfterRename(old_full_name, new_full_name) ==
    (unique_file_names \ {old_full_name}) \cup {new_full_name}

\* Model.update_file_stem(file_id, new_stem)
update_file_stem(file_id, new_stem) ==
    LET old_stem == file_element_dict[file_id][2]
        extension == file_element_dict[file_id][3]
        old_full_name == old_stem \o extension
        new_full_name == new_stem \o extension
        call == [NoCall EXCEPT !.op = "rename", !.id = file_id, !.stem = new_stem,
                               !.suffix = extension]
    IN
    IF RenameConflict(old_full_name, new_full_name)
    THEN /\ UNCHANGED catalog
         /\ last' = call
    ELSE /\ unique_file_names' = NamesAfterRename(old_full_name, new_full_name)
         /\ file_element_dict' =
                [file_element_dict EXCEPT ![file_id] = <<file_id, new_stem, extension>>]
         /\ UNCHANGED <<file_path_dict, counter>>
         /\ last' = [call EXCEPT !.ret = <<file_id, new_stem, extension>>]

\* The reset without line 109: the counter keeps its value.
reset_KeepCounter ==
    /\ file_path_dict' = <<>>
    /\ file_element_dict' = <<>>
    /\ unique_file_names' = {}
    /\ counter' = counter

\* Model.reset
reset ==
    /\ file_path_dict' = <<>>
    /\ file_element_dict' = <<>>
    /\ unique_file_names' = {}
    /\ counter' = 1

\* View.update_status(total_count, export_status_text)
update_status(total_count, export_status_text) ==
    /\ number_files_imported' = total_count
    /\ export_status' = export_status_text

\* set_control_states that disables whatever its argument.
set_control_states_Off(enabled) ==
    controls' = [btn_import |-> FALSE, btn_export |-> FALSE, btn_reset |-> FALSE]

\* set_control_states without line 108: btn_export keeps its state.
set_control_states_NotExport(enabled) ==
    controls' = [controls EXCEPT !.btn_import = enabled, !.btn_reset = enabled]

\* View.set_control_states(enabled): the three buttons take the same state.
set_control_states(enabled) ==
    controls' = [btn_import |-> enabled, btn_export |-> enabled, btn_reset |-> enabled]

\* ------------------------------------------------- export run (history)
NoRun == [before |-> <<>>, convFailed |-> FALSE, convAfterFail |-> FALSE,
          allOk |-> TRUE, archive |-> FALSE, archived |-> {}, outcome |-> "none",
          edits |-> 0, made |-> FALSE, raised |-> <<>>, reports |-> <<>>,
          statuses |-> <<>>]

NoLocals == [file_id |-> 0, stem |-> "", staged |-> "", gen |-> "", exc |-> "none"]

NoDir == [exists |-> FALSE, files |-> {}]

WorkerStep == [NoCall EXCEPT !.op = "worker"]

\* A handler of the interactive thread runs: the record of a finished export
\* run is dropped.
UiTurn == run' = IF wpc = "idle" THEN NoRun ELSE run

\* An edit is made; those made while a worker runs are counted.
EditTurn ==
    /\ wpc # "idle" => run.edits < MaxEditsInRun
    /\ run' = IF wpc = "idle" THEN NoRun ELSE [run EXCEPT !.edits = @ + 1]

\* Sequences of distinct files of length 0..n (the result of askopenfiles).
RECURSIVE Picks(_)
Picks(n) ==
    IF n = 0 THEN {<<>>}
    ELSE LET shorter == Picks(n - 1)
         IN shorter \cup { Append(p, f) : p \in shorter, f \in Files }

ValidPicks == { p \in Picks(MaxPick) :
                  \A i, j \in 1..Len(p) : i # j => p[i] # p[j] }

\* ------------------------------------------- Controller, interactive thread
\* handle_import, lines 36-42: the dialog returns the chosen files.
HandleImport(files) ==
    /\ controls.btn_import
    /\ pending = <<>>
    /\ pending' = files
    /\ last' = [NoCall EXCEPT !.op = "import"]
    /\ UiTurn
    /\ UNCHANGED <<catalog, history, viewvars, threads, wpc, wlocal, tempdir>>

\* handle_import, lines 45-71: one iteration of the loop over the chosen files,
\* and the status update after the last one.
ImportNext(ask) ==
    /\ pending # <<>>
    /\ LET f == Head(pending) IN add_file(f, f.stem, f.suffix, ask)
    /\ pending' = Tail(pending)
    /\ IF pending' = <<>>
       THEN LET total_count == Cardinality(DOMAIN file_path_dict')
            IN update_status(total_count,
                             IF total_count > 0 THEN "Pret a exporter" ELSE "")
       ELSE UNCHANGED <<number_files_imported, export_status>>
    /\ UNCHANGED <<controls, threads, wpc, wlocal, tempdir, run>>

\* _finish_edit_callback without the test of line 95.
IsEmptyStem_Skipped(new_stem) == FALSE

\* _finish_edit_callback, line 95: not new_stem.
IsEmptyStem(new_stem) == new_stem = ""

\* handle_double_click, View.show_edit_entry.on_entry_finish and
\* _finish_edit_callback: the user edits the name of row file_id and leaves
\* the text typed in the editor.
EditName(file_id, typed) ==
    /\ pending = <<>>
    /\ file_id \in DOMAIN file_element_dict
    /\ LET new_stem == Strip(typed)
       IN IF IsEmptyStem(new_stem)
          THEN /\ last' = [NoCall EXCEPT !.op = "edit_rejected", !.id = file_id]
               /\ UNCHANGED catalog
          ELSE update_file_stem(file_id, new_stem)
    /\ EditTurn
    /\ UNCHANGED <<history, viewvars, pending, threads, wpc, wlocal, tempdir>>

\* handle_reset without line 115: the view is cleared, the model is not.
handle_reset_ViewOnly ==
    /\ UNCHANGED <<catalog, history>>
    /\ update_status(0, "")

\* handle_reset
handle_reset ==
    /\ reset
    /\ admitted' = {}
    /\ successes' = 0
    /\ update_status(0, "")

HandleReset ==
    /\ controls.btn_reset
    /\ pending = <<>>
    /\ handle_reset
    /\ last' = [NoCall EXCEPT !.op = "reset"]
    /\ UiTurn
    /\ UNCHANGED <<controls, pending, threads, wpc, wlocal, tempdir>>

\* The test of line 124 written with < in place of ==.
NothingToExport_Negative == get_file_count < 0

\* handle_export, line 124: there is no file to export.
NothingToExport == get_file_count = 0

\* handle_export: chosen is whether the directory dialog returned a directory.
HandleExport(chosen) ==
    /\ controls.btn_export
    /\ pending = <<>>
    /\ IF NothingToExport
       THEN /\ last' = [NoCall EXCEPT !.op = "export_refused"]
            /\ UiTurn
            /\ UNCHANGED <<viewvars, threads, wpc>>
       ELSE IF ~chosen
       THEN /\ last' = [NoCall EXCEPT !.op = "export_cancelled"]
            /\ UiTurn
            /\ UNCHANGED <<viewvars, threads, wpc>>
       ELSE /\ update_status(get_file_count, "Initialisation de l'exportation...")
            /\ set_control_states(FALSE)
            /\ threads' = threads + 1
            /\ wpc' = "start"
            /\ run' = [NoRun EXCEPT !.before = catalog,
                                    !.statuses = <<"Initialisation de l'exportation...">>]
            /\ last' = [NoCall EXCEPT !.op = "export"]
    /\ UNCHANGED <<catalog, history, pending, wlocal, tempdir>>

\* ------------------------------------------------ the working directory
Names(files) == { x.name : x \in files }

\* Writing a file replaces a file of the same name.
WriteFile(files, name, kind, id) ==
    { x \in files : x.name # name } \cup {[name |-> name, kind |-> kind, id |-> id]}

RemoveFile(files, name) == { x \in files : x.name # name }

FileNamed(files, name) == CHOOSE x \in files : x.name = name

\* export, line 134: f"{file_id}_{original_file_path.name}"
StagedName(file_id, original_path) ==
    ToString(file_id) \o "_" \o BaseName(original_path)

\* export, line 141: f"{temp_unique_original_path.stem}.pdf"
GeneratedPdfName(file_id, original_path) ==
    ToString(file_id) \o "_" \o original_path.stem \o ".pdf"

\* export, lines 159-167: the first of stem.pdf, stem_1.pdf, stem_2.pdf, ...
\* that names no file of the working directory, searched from stem_<k>.
RECURSIVE NextFreeName(_, _, _)
NextFreeName(files, final_name_base, k) ==
    LET name == final_name_base \o "_" \o ToString(k) \o ".pdf"
    IN IF name \in Names(files) THEN NextFreeName(files, final_name_base, k + 1)
       ELSE name

\* The final name taken without the search of lines 164-167.
ResolveName_NoSearch(files, new_pdf_name_stem) == new_pdf_name_stem \o ".pdf"

ResolveName(files, new_pdf_name_stem) ==
    IF (new_pdf_name_stem \o ".pdf") \in Names(files)
    THEN NextFreeName(files, new_pdf_name_stem, 1)
    ELSE new_pdf_name_stem \o ".pdf"

\* ------------------------------------------------ Controller, worker thread
\* _run_export_in_thread, lines 146-153, and export, line 122: the status is
\* set and the working directory is made (made = FALSE: mkdir raises).
WBegin(made) ==
    /\ wpc = "start"
    /\ update_status(get_file_count, "Conversion PDF en cours...")
    /\ IF made
       THEN /\ tempdir' = [exists |-> TRUE, files |-> {}]
            /\ wlocal' = NoLocals
            /\ wpc' = "loop"
       ELSE /\ tempdir' = tempdir
            /\ wlocal' = [NoLocals EXCEPT !.exc = "mkdir"]
            /\ wpc' = "except"
    /\ run' = [run EXCEPT !.made = made,
                          !.statuses = Append(@, "Conversion PDF en cours..."),
                          !.raised = IF made THEN @ ELSE Append(@, "mkdir")]
    /\ last' = WorkerStep
    /\ UNCHANGED <<catalog, history, controls, pending, threads>>

\* export, lines 125-142: the next entry of file_path_dict is taken and its
\* file copied into the working directory (copied = "ok"), or the copy
\* raises, leaving nothing ("fail") or a partial file ("partial").
WStage(copied) ==
    /\ wpc = "loop"
    /\ LET file_id == wlocal.file_id + 1
       IN IF file_id \notin DOMAIN file_path_dict
          THEN /\ copied = "ok"
               /\ wpc' = "zip"
               /\ UNCHANGED <<wlocal, tempdir, run>>
          ELSE LET original_path == file_path_dict[file_id]
                   staged == StagedName(file_id, original_path)
                   loc == [file_id |-> file_id,
                           stem |-> file_element_dict[file_id][2],
                           staged |-> staged,
                           gen |-> GeneratedPdfName(file_id, original_path),
                           exc |-> "none"]
               IN IF copied = "ok"
                  THEN /\ tempdir' = [tempdir EXCEPT !.files =
                                         WriteFile(@, staged, "src", file_id)]
                       /\ wlocal' = loc
                       /\ wpc' = "convert"
                       /\ run' = run
                  ELSE /\ tempdir' = IF copied = "partial"
                                     THEN [tempdir EXCEPT !.files =
                                              WriteFile(@, staged, "partial", file_id)]
                                     ELSE tempdir
                       /\ wlocal' = [NoLocals EXCEPT !.file_id = file_id,
                                                      !.exc = "copy"]
                       /\ wpc' = "except"
                       /\ run' = [run EXCEPT !.raised = Append(@, "copy")]
    /\ last' = WorkerStep
    /\ UNCHANGED <<catalog, history, viewvars, pending, threads>>

\* export, lines 158-171: the final name is resolved and the generated PDF,
\* if there is one, renamed to it.
ResolveAndRename(files, gen, new_pdf_name_stem) ==
    IF gen \in Names(files)
    THEN LET pdf == FileNamed(files, gen)
         IN WriteFile(RemoveFile(files, gen),
                      ResolveName(files, new_pdf_name_stem), pdf.kind, pdf.id)
    ELSE files

\* export, lines 144-175: the converter runs on the staged copy. It exits zero
\* and writes the PDF ("ok"), exits non-zero ("fail": CalledProcessError) or
\* cannot be started ("oserror"); after an exit of zero the final name is
\* resolved and the PDF renamed.
WConvert(outcome) ==
    /\ wpc = "convert"
    /\ run' = [run EXCEPT !.convAfterFail = @ \/ run.convFailed,
                          !.convFailed = @ \/ outcome = "fail",
                          !.allOk = @ /\ outcome = "ok",
                          !.raised = IF outcome = "ok" THEN @
                                     ELSE Append(@, IF outcome = "fail" THEN "cpe"
                                                    ELSE "exec")]
    /\ IF outcome = "ok"
       THEN /\ tempdir' = [tempdir EXCEPT !.files =
                              ResolveAndRename(
                                  WriteFile(@, wlocal.gen, "pdf", wlocal.file_id),
                                  wlocal.gen, wlocal.stem)]
            /\ wlocal' = wlocal
       ELSE /\ tempdir' = tempdir
            /\ wlocal' = [wlocal EXCEPT !.exc = IF outcome = "fail" THEN "cpe"
                                                ELSE "exec"]
    /\ wpc' = "finally"
    /\ last' = WorkerStep
    /\ UNCHANGED <<catalog, history, viewvars, pending, threads>>

\* export, lines 176-179: the staged copy is removed; the loop goes on, or the
\* exception propagates to _run_export_in_thread.
\* The removal of lines 178-179 made at the end of the try body, not in the
\* finally block.
FilesAfterFinally_OnSuccess(files, staged) ==
    IF wlocal.exc = "none" THEN { x \in files : x.name # staged } ELSE files

FilesAfterFinally(files, staged) == RemoveFile(files, staged)

\* The except clause of lines 173-175 taking every exception, without its
\* raise.
Propagates_Swallowed(exc) == FALSE

\* export, lines 173-179: an exception of the try body leaves the loop after
\* the finally block.
Propagates(exc) == exc # "none"

WFinally ==
    /\ wpc = "finally"
    /\ tempdir' = [tempdir EXCEPT !.files = FilesAfterFinally(@, wlocal.staged)]
    /\ wpc' = IF Propagates(wlocal.exc) THEN "except" ELSE "loop"
    /\ wlocal' = [NoLocals EXCEPT !.file_id = wlocal.file_id, !.exc = wlocal.exc]
    /\ last' = WorkerStep
    /\ UNCHANGED <<catalog, history, viewvars, pending, threads, run>>

\* _run_export_in_thread, lines 156-158: the archive is made from the files of
\* the working directory (zipped = FALSE: make_archive raises).
WZip(zipped) ==
    /\ wpc = "zip"
    /\ update_status(get_file_count, "Creation de l'archive ZIP...")
    /\ IF zipped
       THEN /\ run' = [run EXCEPT !.archive = TRUE,
                                  !.archived = Names(tempdir.files),
                                  !.statuses = Append(@, "Creation de l'archive ZIP...")]
            /\ wlocal' = wlocal
            /\ wpc' = "success"
       ELSE /\ run' = [run EXCEPT !.raised = Append(@, "zip"),
                                  !.statuses = Append(@, "Creation de l'archive ZIP...")]
            /\ wlocal' = [wlocal EXCEPT !.exc = "zip"]
            /\ wpc' = "except"
    /\ last' = WorkerStep
    /\ UNCHANGED <<catalog, history, controls, pending, threads, tempdir>>

\* _run_export_in_thread, lines 161-164: success is shown and the list reset.
WSuccess ==
    /\ wpc = "success"
    /\ handle_reset
    /\ run' = [run EXCEPT !.outcome = "done",
                          !.statuses = Append(@, ""),
                          !.reports = Append(@, [outcome |-> "done", message |-> ""])]
    /\ wlocal' = NoLocals
    /\ wpc' = "cleanup"
    /\ last' = WorkerStep
    /\ UNCHANGED <<controls, pending, threads, tempdir>>

\* The clause of line 166 placed after that of line 169, which then takes
\* every exception.
IsCalledProcessError_Shadowed(exc) == FALSE

\* _run_export_in_thread, line 166: the exception is a CalledProcessError
\* (raised by subprocess.run when the converter exits non-zero).
IsCalledProcessError(exc) == exc = "cpe"

\* _run_export_in_thread, lines 166-172: the two exception handlers; the
\* second shows the message of the exception.
WExcept ==
    /\ wpc = "except"
    /\ IF IsCalledProcessError(wlocal.exc)
       THEN /\ update_status(get_file_count, "Echec de l'exportation PDF.")
            /\ run' = [run EXCEPT !.outcome = "conversion_failed",
                                  !.statuses = Append(@, "Echec de l'exportation PDF."),
                                  !.reports = Append(@, [outcome |-> "conversion_failed",
                                                         message |-> ""])]
       ELSE /\ update_status(get_file_count, "Echec de l'exportation. Erreur fatale.")
            /\ run' = [run EXCEPT !.outcome = "unexpected_failure",
                                  !.statuses =
                                      Append(@, "Echec de l'exportation. Erreur fatale."),
                                  !.reports = Append(@, [outcome |-> "unexpected_failure",
                                                         message |-> wlocal.exc])]
    /\ wlocal' = NoLocals
    /\ wpc' = "cleanup"
    /\ last' = WorkerStep
    /\ UNCHANGED <<catalog, history, controls, pending, threads, tempdir>>

\* The removal of lines 177-178 made at the end of the try body, not in the
\* finally block.
DirAfterCleanup_OnSuccessOnly(dir) == IF run.outcome = "done" THEN NoDir ELSE dir

\* _run_export_in_thread, lines 177-178: the working directory after cleanup.
DirAfterCleanup(dir) == NoDir

\* _run_export_in_thread, lines 174-180: the working directory is removed and
\* the buttons are enabled; the thread ends.
WCleanup ==
    /\ wpc = "cleanup"
    /\ tempdir' = DirAfterCleanup(tempdir)
    /\ set_control_states(TRUE)
    /\ threads' = threads - 1
    /\ wlocal' = wlocal
    /\ wpc' = "idle"
    /\ last' = WorkerStep
    /\ UNCHANGED <<catalog, history, number_files_imported, export_status,
                   pending, run>>

\* ----------------------------------------------------------- specification
Init ==
    /\ file_path_dict = <<>>
    /\ file_element_dict = <<>>
    /\ unique_file_names = {}
    /\ counter = 1
    /\ admitted = {}
    /\ successes = 0
    /\ controls = [btn_import |-> TRUE, btn_export |-> TRUE, btn_reset |-> TRUE]
    /\ number_files_imported = 0
    /\ export_status = "Pret"
    /\ pending = <<>>
    /\ last = NoCall
    /\ threads = 0
    /\ wpc = "idle"
    /\ wlocal = NoLocals
    /\ tempdir = NoDir
    /\ run = NoRun

Next ==
    \/ \E files \in ValidPicks : HandleImport(files)
    \/ \E ask \in BOOLEAN : ImportNext(ask)
    \/ \E file_id \in DOMAIN file_element_dict, typed \in Typed :
          EditName(file_id, typed)
    \/ HandleReset
    \/ \E chosen \in BOOLEAN : HandleExport(chosen)
    \/ \E made \in BOOLEAN : WBegin(made)
    \/ \E copied \in {"ok", "fail", "partial"} : WStage(copied)
    \/ \E outcome \in ConverterOutcomes : WConvert(outcome)
    \/ WFinally
    \/ \E zipped \in BOOLEAN : WZip(zipped)
    \/ WSuccess
    \/ WExcept
    \/ WCleanup

Spec == Init /\ [][Next]_vars

\* The steps of the export worker thread.
WorkerNext ==
    \/ \E made \in BOOLEAN : WBegin(made)
    \/ \E copied \in {"ok", "fail", "partial"} : WStage(copied)
    \/ \E outcome \in ConverterOutcomes : WConvert(outcome)
    \/ WFinally
    \/ \E zipped \in BOOLEAN : WZip(zipped)
    \/ WSuccess
    \/ WExcept
    \/ WCleanup

\* The worker thread is scheduled, and every call it makes (the converter,
\* the file operations, the dialogs) returns: a worker that can take a step
\* eventually takes one.
FairSpec == Spec /\ WF_vars(WorkerNext)

\* ------------------------------------------------------------- properties
LiveNames == { FullName(id) : id \in DOMAIN file_element_dict }

\* The step just taken is a call of add_file on the head of pending.
AddStep == pending # <<>> /\ last'.op = "add"

\* The step just taken is a call of update_file_stem.
RenameStep == last'.op = "rename"

\* C1: in every reachable state the full display name (stem + extension) of
\* every live entry is a member of unique_file_names.
C1_EveryNameInSet ==
    \A id \in DOMAIN file_element_dict : FullName(id) \in unique_file_names

\* C2: if two distinct live entries have the same full display name, at least
\* one of them was admitted by an add whose conflict prompt returned true.
C2_SharedNameOnlyByOverride ==
    \A i, j \in DOMAIN file_element_dict :
        (i # j /\ FullName(i) = FullName(j)) => (i \in admitted \/ j \in admitted)

\* C3: an add of a path no live entry has, whose stem + extension is the full
\* display name of a live entry, invokes the conflict prompt exactly once, and
\* when the prompt answers false it returns None and the count does not grow;
\* an add whose stem + extension is no live entry's name never invokes it.
C3_PromptOncePerConflict ==
    [][AddStep =>
        LET f == Head(pending)
            collides == (f.stem \o f.suffix) \in LiveNames
        IN /\ (~PathLoaded(f) /\ collides) =>
                  /\ last'.prompts = 1
                  /\ ~last'.answer =>
                        /\ last'.ret = None
                        /\ Cardinality(DOMAIN file_path_dict') =
                               Cardinality(DOMAIN file_path_dict)
           /\ ~collides => last'.prompts = 0
    ]_vars

\* C4: a rename to a stem whose full name is the full display name of a
\* different live entry returns None and leaves the catalog unchanged. The
\* claim is taken for renames that change the entry's own full name (a rename
\* to the entry's own stem is the case of C9), so that what is refuted is the
\* claim in its narrowest reading.
C4_RenameToUsedNameRejected ==
    [][RenameStep =>
        LET new_full_name == last'.stem \o last'.suffix
        IN (/\ new_full_name # FullName(last'.id)
            /\ \E other \in DOMAIN file_element_dict \ {last'.id} :
                  FullName(other) = new_full_name)
           => (last'.ret = None /\ catalog' = catalog)
    ]_vars

\* C9: a rename of an entry to its current display stem returns the entry
\* unchanged and changes nothing of the catalog: entries, source paths, the
\* name set and the id counter.
C9_RenameSameStemNoOp ==
    [][(RenameStep /\ last'.stem = Stem(last'.id)) =>
        (last'.ret = file_element_dict[last'.id] /\ catalog' = catalog)
    ]_vars

NoSharedPath ==
    \A i, j \in DOMAIN file_path_dict :
        i # j => PathStr(file_path_dict[i]) # PathStr(file_path_dict[j])

\* C10: an add of the source path of a live entry returns None, never invokes
\* the conflict prompt (also when the display name collides) and leaves the
\* catalog unchanged; in every reachable state no two live entries share a
\* source path.
C10_DuplicatePathRejected ==
    /\ []NoSharedPath
    /\ [][(AddStep /\ PathLoaded(Head(pending))) =>
            (last'.ret = None /\ last'.prompts = 0 /\ catalog' = catalog)
       ]_vars

\* An add of a loaded path whose name is also taken has just been refused
\* without a prompt.
C10_Witness ==
    /\ last.op = "add"
    /\ last.ret = None
    /\ last.prompts = 0
    /\ \E id \in DOMAIN file_path_dict : PathStr(file_path_dict[id]) = last.path
    /\ (last.stem \o last.suffix) \in unique_file_names
    /\ (last.stem \o last.suffix) \in LiveNames

\* C5: from the start of an export worker until it has enabled the controls,
\* the interactive thread starts no import, add, rename or reset and changes
\* nothing of the catalog the worker reads.
C5_NoMutationWhileWorkerRuns ==
    [][(wpc # "idle" /\ last'.op # "worker") =>
        (last'.op \notin {"import", "add", "rename", "reset"} /\ catalog' = catalog)
    ]_vars

\* C6: when an export run in which the converter exited non-zero has ended, no
\* entry was converted after the failure, no archive was made, the working
\* directory does not exist and the catalog is as it was when the export began.
C6_FailedRunLeavesNothing ==
    (wpc = "idle" /\ run.convFailed) =>
        /\ ~run.convAfterFail
        /\ ~run.archive
        /\ ~tempdir.exists
        /\ catalog = run.before

\* C7: whenever an export run has ended, with whatever outcome, its working
\* directory does not exist.
C7_NoDirLeftBehind == wpc = "idle" => ~tempdir.exists

\* A run that made its working directory has ended in failure.
C7_Witness ==
    /\ wpc = "idle"
    /\ run.made
    /\ run.outcome \in {"conversion_failed", "unexpected_failure"}
    /\ ~tempdir.exists

\* C8: when every converter run of an export exited zero and wrote its PDF,
\* the working directory holds at packaging time exactly one file per catalog
\* entry, all of them PDFs with pairwise distinct names, and no staged copy.
C8_OnePdfPerEntry ==
    (wpc = "zip" /\ run.allOk) =>
        /\ Cardinality(tempdir.files) = get_file_count
        /\ Cardinality(Names(tempdir.files)) = get_file_count
        /\ \A x \in tempdir.files : x.kind = "pdf"
        /\ \A id \in DOMAIN file_path_dict : \E x \in tempdir.files : x.id = id

\* The step just taken is a call of Model.reset (by the reset button or at the
\* end of a successful export).
ResetStep == last'.op = "reset" \/ (wpc = "success" /\ last'.op = "worker")

\* C11: get_file_count is the number of add calls that returned an entry
\* since the start or the last reset; a rename (accepted or rejected) and a
\* rejected add leave it unchanged, and it is 0 right after a reset.
C11_CountIsSuccessfulAdds ==
    /\ [](get_file_count = successes)
    /\ [][(AddStep /\ last'.ret = None) => get_file_count' = get_file_count]_vars
    /\ [][RenameStep => get_file_count' = get_file_count]_vars
    /\ [][ResetStep => get_file_count' = 0]_vars

\* After two adds returned an entry, a third was refused at the conflict
\* prompt and the count is still two.
C11_Witness ==
    /\ last.op = "add"
    /\ last.ret = None
    /\ last.prompts = 1
    /\ successes = 2
    /\ get_file_count = 2

\* C12: the k-th add that returns an entry since the start or the last reset
\* gets id k (so the first add after a reset gets id 1); the live ids are
\* exactly 1..get_file_count, each entry carries its own id, the counter is
\* get_file_count + 1, and a rename changes no id.
C12_IdsAreAdmissionRanks ==
    /\ [](/\ DOMAIN file_path_dict = 1..get_file_count
          /\ DOMAIN file_element_dict = 1..get_file_count
          /\ \A id \in DOMAIN file_element_dict : file_element_dict[id][1] = id
          /\ counter = get_file_count + 1)
    /\ [][(AddStep /\ last'.ret # None) =>
            /\ last'.id = successes + 1
            /\ last'.ret[1] = successes + 1
            /\ DOMAIN file_path_dict' = DOMAIN file_path_dict \cup {successes + 1}
            /\ \A id \in DOMAIN file_path_dict :
                  /\ file_path_dict'[id] = file_path_dict[id]
                  /\ file_element_dict'[id][1] = id
       ]_vars
    /\ [][RenameStep =>
            /\ file_path_dict' = file_path_dict
            /\ DOMAIN file_element_dict' = DOMAIN file_element_dict
            /\ \A id \in DOMAIN file_element_dict :
                  file_element_dict'[id][1] = file_element_dict[id][1]
       ]_vars

\* The second add since the last reset returned an entry, with id 2, after
\* the first entry was renamed.
C12_Witness ==
    /\ last.op = "add"
    /\ last.ret # None
    /\ last.id = 2
    /\ successes = 2
    /\ Stem(1) = "x"

\* C13: at most one export worker exists at any time; while one exists the
\* export control is disabled, and an export starts a worker only when none
\* exists.
C13_OneWorkerAtATime ==
    /\ [](threads <= 1)
    /\ [](threads > 0 => ~controls.btn_export)
    /\ [](threads = 0 <=> wpc = "idle")
    /\ [][last'.op = "export" => (threads = 0 /\ threads' = 1)]_vars

\* A worker is converting and the export control is disabled.
C13_Witness ==
    /\ threads = 1
    /\ wpc = "convert"
    /\ ~controls.btn_export

AllEnabled == [btn_import |-> TRUE, btn_export |-> TRUE, btn_reset |-> TRUE]

\* C14: every export run that starts eventually ends, with a completion or a
\* failure recorded, and when it has ended the import, export and reset
\* controls are enabled again.
C14_ExportEndsAndEnables ==
    /\ (wpc # "idle") ~> (wpc = "idle" /\ run.outcome # "none" /\ controls = AllEnabled)
    /\ [](wpc = "idle" => controls = AllEnabled)

\* A run has ended in an unexpected failure and the controls are enabled.
C14_Witness ==
    /\ wpc = "idle"
    /\ threads = 0
    /\ run.outcome = "unexpected_failure"
    /\ controls = AllEnabled

\* The step just taken is a converter run that exited zero, followed by the
\* resolution of the final name and the renaming.
ConvertedStep == wpc = "convert" /\ wpc' = "finally" /\ wlocal'.exc = "none"

\* The k-th candidate of the name search: stem.pdf, stem_1.pdf, stem_2.pdf, ...
Candidate(stem, k) ==
    IF k = 0 THEN stem \o ".pdf" ELSE stem \o "_" \o ToString(k) \o ".pdf"

\* C15: with D the working directory once the converter has written its
\* output, the output is renamed to displayStem.pdf when D has no file of
\* that name, otherwise to displayStem_k.pdf for the smallest k >= 1 that
\* names no file of D; the renaming replaces no file of D.
C15_SmallestFreeName ==
    [][ConvertedStep =>
        LET D == WriteFile(tempdir.files, wlocal.gen, "pdf", wlocal.file_id)
            before == Names(D)
            after == Names(tempdir'.files)
        IN /\ \E k \in 0..Cardinality(D) :
                 /\ after \ before = {Candidate(wlocal.stem, k)}
                 /\ \A j \in 0..(k - 1) : Candidate(wlocal.stem, j) \in before
                 /\ [name |-> Candidate(wlocal.stem, k), kind |-> "pdf",
                     id |-> wlocal.file_id] \in tempdir'.files
           /\ wlocal.gen \notin after
           /\ \A x \in D : x.name # wlocal.gen => x \in tempdir'.files
    ]_vars

\* The output of an entry has been renamed to displayStem_2.pdf, beside the
\* displayStem.pdf and displayStem_1.pdf of two other entries.
C15_Witness ==
    /\ wpc = "finally"
    /\ wlocal.exc = "none"
    /\ \E x, y, z \in tempdir.files :
          /\ x.name = wlocal.stem \o "_2.pdf" /\ x.id = wlocal.file_id
          /\ y.name = wlocal.stem \o "_1.pdf" /\ y.id # wlocal.file_id
          /\ z.name = wlocal.stem \o ".pdf" /\ z.id # wlocal.file_id

\* C16: every failure of an export run is reported as exactly one of two
\* outcomes: a non-zero exit of the converter as conversion-failed, any other
\* exception of staging, conversion or packaging as unexpected-failure with
\* the message of the exception; a run reports at most one outcome, and
\* reports success only when nothing was raised.
C16_FailureClassifiedOnce ==
    /\ [](Len(run.reports) <= 1 /\ Len(run.raised) <= 1)
    /\ []((wpc \in {"cleanup", "idle"} /\ run.raised # <<>>) =>
            run.reports =
                IF run.raised[1] = "cpe"
                THEN << [outcome |-> "conversion_failed", message |-> ""] >>
                ELSE << [outcome |-> "unexpected_failure", message |-> run.raised[1]] >>)
    /\ [](\A i \in 1..Len(run.reports) :
            IF run.reports[i].outcome = "done" THEN run.raised = <<>>
            ELSE run.raised # <<>>)

\* A run whose archive could not be made has ended, reported as an
\* unexpected failure with the message of that exception.
C16_Witness ==
    /\ wpc = "idle"
    /\ run.allOk
    /\ run.raised = <<"zip">>
    /\ run.reports = << [outcome |-> "unexpected_failure", message |-> "zip"] >>

\* C17: a rename changes nothing but the display stem of its entry and the
\* name set. When it is refused (the new full name differs from the old one
\* and is in the name set) nothing of the catalog changes; when it succeeds
\* the entry keeps its id and extension and takes the new stem, and the
\* source paths, every other entry, the set of live ids and the id counter
\* are unchanged.
C17_RenameFrame ==
    [][RenameStep =>
        LET id == last'.id
            old_full_name == FullName(id)
            new_full_name == last'.stem \o Suffix(id)
        IN /\ (new_full_name # old_full_name /\ new_full_name \in unique_file_names)
                  => last'.ret = None
           /\ last'.ret = None => catalog' = catalog
           /\ last'.ret # None =>
                  /\ file_element_dict'[id] = <<id, last'.stem, Suffix(id)>>
                  /\ file_path_dict' = file_path_dict
                  /\ counter' = counter
                  /\ DOMAIN file_element_dict' = DOMAIN file_element_dict
                  /\ \A other \in DOMAIN file_element_dict \ {id} :
                        file_element_dict'[other] = file_element_dict[other]
                  /\ unique_file_names' \subseteq unique_file_names \cup {new_full_name}
    ]_vars

\* Entry 1 of two has just been renamed from r to x; entry 2 is still r.
C17_Witness ==
    /\ last.op = "rename"
    /\ last.id = 1
    /\ last.ret = <<1, "x", ".docx">>
    /\ get_file_count = 2
    /\ file_element_dict[1] = <<1, "x", ".docx">>
    /\ file_element_dict[2] = <<2, "r", ".docx">>

\* The step just taken is a click on the export button.
ExportRequest == last'.op \in {"export", "export_refused", "export_cancelled"}

\* C18: an export requested while get_file_count is 0 is refused before the
\* pipeline starts: no worker is started, no working directory is made and
\* the controls stay enabled; every export worker starts, and runs its first
\* step, with get_file_count > 0.
C18_EmptyExportRefused ==
    /\ [][(ExportRequest /\ get_file_count = 0) =>
            /\ last'.op = "export_refused"
            /\ threads' = 0
            /\ wpc' = "idle"
            /\ ~tempdir'.exists
            /\ controls' = AllEnabled
            /\ catalog' = catalog
       ]_vars
    /\ [][last'.op = "export" => (get_file_count > 0 /\ threads' = 1)]_vars
    /\ [](wpc = "start" => get_file_count > 0)

\* An export has just been refused on an empty catalog.
C18_Witness ==
    /\ last.op = "export_refused"
    /\ get_file_count = 0
    /\ threads = 0
    /\ ~tempdir.exists
    /\ controls = AllEnabled

\* The texts of Typed made of white space only, as they are typed.
BlankTexts == { Join(cs) : cs \in { t \in Typed : \A i \in 1..Len(t) : t[i] = " " } }

\* The step just taken is the end of an edit of a name.
EditStep == last'.op \in {"rename", "edit_rejected"}

\* C19: an edit that leaves an empty or blank name is refused before it
\* reaches the catalog: update_file_stem is never called with an empty or
\* blank stem, no entry ever has one, and a refused edit leaves the catalog
\* (and so the entry's stem) unchanged.
C19_BlankNameRefused ==
    /\ [](last.op = "rename" => last.stem \notin BlankTexts)
    /\ [](\A id \in DOMAIN file_element_dict : Stem(id) \notin BlankTexts)
    /\ [][last'.op = "edit_rejected" => catalog' = catalog]_vars
    /\ [][EditStep => (\A id \in DOMAIN file_element_dict :
                          id # last'.id => file_element_dict'[id] = file_element_dict[id])
       ]_vars

\* The edit of entry 1, renamed before to x, has just been refused.
C19_Witness ==
    /\ last.op = "edit_rejected"
    /\ last.id = 1
    /\ 1 \in DOMAIN file_element_dict
    /\ Stem(1) = "x"

\* The phase of the export run, from the position of the worker: Staging
\* from the start of the thread, Converting from the status of line 152 to
\* the end of the loop over the entries, Packaging at the archive, Done once
\* the archive is made, Failed once an exception is raised.
Phase ==
    CASE wpc = "idle" -> "Idle"
      [] wpc = "start" -> "Staging"
      [] wpc \in {"loop", "convert"} -> "Converting"
      [] wpc = "finally" -> IF wlocal.exc = "none" THEN "Converting" ELSE "Failed"
      [] wpc = "zip" -> "Packaging"
      [] wpc = "success" -> "Done"
      [] wpc = "except" -> "Failed"
      [] wpc = "cleanup" -> IF run.outcome = "done" THEN "Done" ELSE "Failed"

PhaseOrder ==
    { <<"Idle", "Staging">>, <<"Staging", "Converting">>,
      <<"Converting", "Packaging">>, <<"Packaging", "Done">>, <<"Done", "Idle">>,
      <<"Staging", "Failed">>, <<"Converting", "Failed">>,
      <<"Packaging", "Failed">>, <<"Failed", "Idle">> }

Pdfs(files) == { x \in files : x.kind = "pdf" }

FailedTexts == {"Echec de l'exportation PDF.", "Echec de l'exportation. Erreur fatale."}

RunEnded == wpc \in {"cleanup", "idle"} /\ run.outcome # "none"

\* The phases of a run follow the order; packaging starts only after the
\* converter ran without failure on every entry; Done is reached only with
\* the archive made; a failed run converts and packages nothing more; the
\* status of packaging is reported after that of converting, and a failed
\* run ends with a failure status.
PhasesInOrder ==
    /\ [][Phase' # Phase => <<Phase, Phase'>> \in PhaseOrder]_vars
    /\ [](Phase = "Packaging" =>
            (run.allOk /\ run.raised = <<>> /\ wlocal.file_id = get_file_count))
    /\ [](Phase = "Done" => (run.archive /\ run.raised = <<>>))
    /\ [][Phase = "Failed" =>
            /\ Pdfs(tempdir'.files) \subseteq Pdfs(tempdir.files)
            /\ run'.archive = run.archive
            /\ ~run'.archive
       ]_vars
    /\ [](\A i \in 1..Len(run.statuses) :
            run.statuses[i] = "Creation de l'archive ZIP..." =>
                \E j \in 1..(i - 1) : run.statuses[j] = "Conversion PDF en cours...")
    /\ []((RunEnded /\ run.outcome # "done") =>
            run.statuses[Len(run.statuses)] \in FailedTexts)

\* C20 (as stated): the phases follow the order, and the status callback
\* reports a terminal done or failed status for each run: the last status of
\* an ended run is a failure text, or a text that tells the completion.
C20_PhasesAndTerminalStatus ==
    /\ PhasesInOrder
    /\ []((RunEnded /\ run.outcome = "done") =>
            (run.statuses[Len(run.statuses)] # "" /\ export_status # ""))

\* C20 (amended): the phases follow the order; a failed run ends with a
\* failure status, and a completed run ends with the status cleared by the
\* reset (count 0, empty text), after the packaging status: the status
\* callback reports no completion.
C20_PhasesAndClearedStatus ==
    /\ PhasesInOrder
    /\ []((RunEnded /\ run.outcome = "done") =>
            /\ run.statuses = <<"Initialisation de l'exportation...",
                                "Conversion PDF en cours...",
                                "Creation de l'archive ZIP...", "">>
            /\ (wpc = "cleanup" => (export_status = "" /\ number_files_imported = 0)))

\* A run that converted two entries and made its archive has ended.
C20_Witness ==
    /\ wpc = "idle"
    /\ run.outcome = "done"
    /\ run.archive
    /\ Cardinality(run.archived) = 2
    /\ export_status = ""

\* The staged copies (whole or partial) among the files.
Staged(files) == { x \in files : x.kind \in {"src", "partial"} }

\* The step just taken is the finally block that ends the conversion attempt
\* of an entry.
AttemptEnds == wpc = "finally" /\ last'.op = "worker"

StagedStep == wpc = "loop" /\ wpc' = "convert"

\* C22: the name under which an entry is staged and the name the converter
\* writes for it are the names of no file already in the working directory,
\* and the conversion of an entry leaves the PDFs of the earlier entries in
\* place.
C22_TemporaryNamesAreFresh ==
    /\ [][StagedStep => wlocal'.staged \notin Names(tempdir.files)]_vars
    /\ [][ConvertedStep =>
            /\ wlocal.gen \notin Names(tempdir.files)
            /\ Pdfs(tempdir.files) \subseteq tempdir'.files
       ]_vars

EmptyCatalog ==
    /\ get_file_count = 0
    /\ file_element_dict = <<>>
    /\ unique_file_names = {}
    /\ counter = 1

AllDisabled == [btn_import |-> FALSE, btn_export |-> FALSE, btn_reset |-> FALSE]

\* C23: in a successful export the worker resets the catalog (count 0, name
\* set empty, id counter 1) while the controls are still disabled, and the
\* catalog is empty when it enables them; a step of the worker changes the
\* catalog only as that reset, which a failed run never reaches.
C23_ResetOnSuccessOnly ==
    /\ []((wpc = "cleanup" /\ run.outcome = "done") =>
            (EmptyCatalog /\ controls = AllDisabled))
    /\ []((wpc = "idle" /\ run.outcome = "done") =>
            (EmptyCatalog /\ controls = AllEnabled))
    /\ [][(wpc = "success" /\ last'.op = "worker") =>
            (EmptyCatalog' /\ run'.outcome = "done" /\ controls' = AllDisabled)]_vars
    /\ [][(last'.op = "worker" /\ catalog' # catalog) =>
            (wpc = "success" /\ run.archive /\ run.raised = <<>>)]_vars
    /\ [][(last'.op = "worker" /\ wpc # "success") => catalog' = catalog]_vars

\* A successful export of two entries has ended: the catalog is empty and
\* the controls are enabled.
C23_Witness ==
    /\ wpc = "idle"
    /\ run.outcome = "done"
    /\ Cardinality(DOMAIN run.before[1]) = 2
    /\ EmptyCatalog
    /\ controls = AllEnabled

====
